---------------------------- MODULE Spec2Model ----------------------------
(***************************************************************************)
(* ScreenSnap GUI (src/src/gui.rs): the sliding side panel, the shared     *)
(* state cell (ThreadSafeState behind one Mutex), the screenshot manager   *)
(* (behind a second Mutex), the capture threads and the analysis threads.  *)
(*                                                                         *)
(* One call of ScreenSnapApp::update is one frame.  A frame is a sequence  *)
(* of steps of the render thread (rpc says which comes next); the          *)
(* background threads interleave between them.  A render step is atomic    *)
(* where every interleaving inside it has the same effect as one before    *)
(* or after it; the texture load is three steps (check under the state     *)
(* lock, clone under the manager lock, store under the state lock) and     *)
(* the transcript two (copy of the cell, append) because a background      *)
(* thread can publish in between.  A lock() of the cell's Mutex in the     *)
(* render thread is part of the step it stands in and waits while          *)
(* state_lock names a thread.  A                                           *)
(* background thread that comes to the cell from a blocking operation      *)
(* (a capture, an HTTP exchange) takes the lock in the step that ends the  *)
(* operation and writes and unlocks in the next one.                       *)
(*                                                                         *)
(* The widgets of the side bar are laid out in every frame, wherever the   *)
(* panel is, and take input whenever they are laid out (the keyboard       *)
(* reaches a widget the pointer cannot).                                   *)
(*                                                                         *)
(* Offsets are whole pixels: the f32 interpolation is rounded to the       *)
(* nearest pixel.  Time is counted in ticks.  A text is a                  *)
(* sequence of fragments (<< >> is the empty string).                      *)
(***************************************************************************)
EXTENDS Integers, Sequences, FiniteSets

\* ------------------------------------------------------------ bounds
\* Requests the user makes in one run: chat lines sent and clicks on the
\* Analyze button, the capture buttons, the close button and the handle.
\* Every thread is started by a request, so this also bounds the threads
\* alive at once.
MaxInputs == 3
\* The ticks the 0.3 s animation lasts: the resolution of the clock.
AnimationTicks == 3

\* ------------------------------------------------------------ constants
SIDEBAR_WIDTH == 400
HANDLE_WIDTH == 20
\* animation_duration (0.3 s), in ticks.
animation_duration == AnimationTicks

\* Option<T>: None is << >>, Some(x) is <<x>>.
None == << >>
Some(x) == <<x>>

\* Window widths ctx.screen_rect().width() can report (run_gui opens the
\* window SIDEBAR_WIDTH + HANDLE_WIDTH = 420 wide).
InitialWidth == SIDEBAR_WIDTH + HANDLE_WIDTH
Widths == {InitialWidth, InitialWidth + 500}

\* On-screen window titles (get_window_titles); "ghost" names no window.
WindowList == <<"editor">>
ModelNames == {"llava:latest", "llava:13b"}

TaskIds == 1..MaxInputs
CaptureIds == 1..MaxInputs

\* ------------------------------------------------------------ state
VARIABLES
    \* ScreenSnapApp (render thread only)
    open, target_x, current_x, animation_start_x,
    animation_start_time,      \* None, or Some(ticks elapsed since Instant::now())
    was_layout_initialized,
    model_name, selected_window, chat_history,
    \* egui context, as update sees it
    width,                     \* ctx.screen_rect().width() of the running frame
    repaint,                   \* ctx.request_repaint() was called in this frame
    \* render thread position and its local of the texture load
    rpc, image_to_load,
    \* the frame's copy of the cell, taken before the transcript is drawn
    texture_handle_clone, ai_response_cloned, processing_cloned,
    \* ThreadSafeState (Arc<Mutex<..>>)
    processing, ai_response, image_data, current_image,
    \* the background thread inside a critical section of the cell's Mutex
    \* that it entered from a blocking operation (None: no such thread)
    state_lock,
    \* ScreenshotManager (Arc<Mutex<..>>) and the capture thread that holds its
    \* lock (0: nobody)
    manager_image, manager_lock,
    \* background threads
    analyses, captures,
    \* bookkeeping: requests made so far, and the step that led here
    inputs, last

panelVars == <<open, target_x, current_x, animation_start_x, animation_start_time,
               was_layout_initialized, width, repaint>>
appVars == <<model_name, selected_window, chat_history>>
cellVars == <<processing, ai_response, image_data, current_image>>
managerVars == <<manager_image, manager_lock>>
threadVars == <<analyses, captures>>
chatLocals == <<texture_handle_clone, ai_response_cloned, processing_cloned>>
vars == <<panelVars, appVars, cellVars, state_lock, managerVars, threadVars,
          rpc, image_to_load, chatLocals, inputs, last>>

\* ------------------------------------------------------------ texts
EmptyText == << >>
MsgCaptureFirst == <<"Please capture an image first.">>
MsgCaptureFirstCommand == <<"Please capture an image first using /capture or /window.">>
MsgCaptureFirstPrompt == <<"Please capture an image first before sending a prompt.">>
MsgCaptureForPrompt == <<"Please capture an image for prompt analysis.">>
MsgProcessingImage == <<"Processing image...">>
MsgProcessingPrompt == <<"Processing with your prompt...">>
MsgWindowUsage ==
    <<"Please specify a window name or part of it after /window (e.g., /window firefox)">>
MsgCleared == <<"Chat history and image cleared.">>
MsgHelp == <<"Available commands: /capture /window /model /analyze /clear /help">>
MsgModelSet(m) == <<"Model set to: ", m>>
MsgModelCurrent(m) == <<"Current model: ", m, ". Usage: /model <model_name>">>
MsgUnknown(c) == <<"Unknown command: ", c, ". Type /help for available commands.">>

DefaultPrompt ==
    <<"Describe what you see in this image in detail, focusing on any text, UI elements, and visual content.">>

\* ------------------------------------------------------------ images
NoBytes == << >>
\* The PNG encoding of an image.
Png(img) == <<"png", img>>
\* ColorImage::from_rgba_unmultiplied + ctx.load_texture of a cloned image.
Texture(img) == <<"texture", img>>

\* ------------------------------------------------------------ inference
\* Result<T>: Ok(v) and Err(e), e the text of the error.
Ok(v) == [ok |-> TRUE, value |-> v]
Err(e) == [ok |-> FALSE, value |-> e]

\* Texts of the errors.  A text is cut so that the words the hint selection
\* looks for ("not found", "not available", "connection refused") are
\* fragments of their own wherever they occur, in the case they occur in.
Responses == {<<"A blue desktop.">>}
ErrNotFound(m) ==
    <<"Model '", m, "' ", "not found", ". Pull it with: ollama pull ", m>>
ErrConnect ==
    <<"error sending request for url (http://localhost:11434/api/tags): error trying to connect: tcp connect error: ",
      "Connection refused", " (os error 111)">>
ErrBuilder == <<"builder error">>
ErrTimeout ==
    <<"Request timed out after 5 minutes. The model might be too large or your system may need more resources.">>
ErrApi(text) == <<"Ollama API error: ">> \o text
ErrSend ==
    <<"error sending request for url (http://localhost:11434/api/generate): error trying to connect: tcp connect error: ",
      "Connection refused", " (os error 111)">>
ErrDecode == <<"error decoding response body: expected value at line 1 column 1">>
\* Bodies a server can send with a status that is not a success.
BodyUnavailable == <<"llama runner is ", "not available">>
BodyRefusedAndMissing ==
    <<"upstream: ", "connection refused", "; model ", "not found">>

\* What the endpoint does in one analysis: whether the client can be built
\* (new), what GET /api/tags gives (tags), what POST /api/generate gives
\* (generate) and the body that comes with it: {"response": ..} with a
\* success, any text (error) with another status.
Exchange(new, tags, generate, body) ==
    [new |-> new, tags |-> tags, generate |-> generate, body |-> body]
Answered(r) == Exchange("ok", "listed", "ok", [response |-> r])
ModelAbsent == Exchange("ok", "absent", "ok", [response |-> EmptyText])
NoBody == [error |-> EmptyText]
TagsRefused == Exchange("ok", "refused", "refused", NoBody)
BuilderFails == Exchange("builder_error", "refused", "refused", NoBody)
\* One exchange for each branch of the thread's match: an answer, a failure
\* of process_image, a failure of LocalModel::new.
UsualExchanges == {Answered(r) : r \in Responses} \cup {ModelAbsent, BuilderFails}
Exchanges ==
    UsualExchanges \cup
    { TagsRefused,
      Exchange("ok", "status", "ok", [response |-> EmptyText]),
      Exchange("ok", "listed", "timeout", NoBody),
      Exchange("ok", "listed", "refused", NoBody),
      Exchange("ok", "listed", "status", [error |-> BodyUnavailable]),
      Exchange("ok", "listed", "status", [error |-> BodyRefusedAndMissing]),
      Exchange("ok", "listed", "bad_json", NoBody) }

\* LocalModel::new: fails when the client cannot be built; an endpoint that
\* does not answer GET /api/tags is logged as a warning only.
LocalModelNew(x) == IF x.new = "builder_error" THEN Err(ErrBuilder) ELSE Ok(TRUE)

\* check_model_available: the request error as it is, Ok(false) for a status
\* that is not a success or a list without the model, else Ok(true).
check_model_available(x) ==
    CASE x.tags = "refused" -> Err(ErrConnect)
      [] x.tags = "listed" -> Ok(TRUE)
      [] OTHER -> Ok(FALSE)

\* process_image: the response field of the body, or the text of the error.
process_image(x, m) ==
    LET available == check_model_available(x)
    IN  IF ~available.ok THEN available
        ELSE IF ~available.value THEN Err(ErrNotFound(m))
        ELSE CASE x.generate = "timeout" -> Err(ErrTimeout)
               [] x.generate = "refused" -> Err(ErrApi(ErrSend))
               [] x.generate = "status" -> Err(ErrApi(x.body.error))
               [] x.generate = "bad_json" -> Err(ErrDecode)
               [] OTHER -> Ok(x.body.response)

\* What the thread has in hand when LocalModel::new and process_image have
\* returned.
Outcome(x, m) ==
    LET ai_model == LocalModelNew(x)
        result == process_image(x, m)
    IN  IF ~ai_model.ok THEN [kind |-> "init_error", text |-> ai_model.value]
        ELSE IF result.ok THEN [kind |-> "response", text |-> result.value]
        ELSE [kind |-> "error", text |-> result.value]

Outcomes(m) == {Outcome(x, m) : x \in UsualExchanges}

\* str::contains(needle): case sensitive.
Contains(text, needle) == \E i \in 1..Len(text) : text[i] = needle

\* Faulty variant of ResultText: the hint of a failure is appended to a
\* response too.
ResultTextHinted(o, m) ==
    IF o.kind = "response"
    THEN o.text \o <<"\n\nEnsure Ollama is running: ollama serve">>
    ELSE <<"AI processing failed: ">> \o o.text

\* The text an analysis thread publishes for an outcome.
ResultText(o, m) ==
    CASE o.kind = "response" -> o.text
      [] o.kind = "error" ->
            <<"AI processing failed: ">> \o o.text \o
            (IF Contains(o.text, "not found")
             THEN <<"\n\nTo fix: ollama pull ", m>>
             ELSE IF Contains(o.text, "not available") \/ Contains(o.text, "connection refused")
                  THEN <<"\n\nEnsure Ollama is running: ollama serve">>
                  ELSE << >>)
      [] OTHER ->
            <<"Failed to init Ollama model: ">> \o o.text \o
            <<"\n\n", "Is Ollama running? Is model pulled?">>

\* ------------------------------------------------------------ panel
\* Faulty variant of PanelX: the open flag is ignored.
PanelXIgnoresOpen(isOpen, w) == w

\* The offset of the panel for a state of the open flag and a window width.
PanelX(isOpen, w) == IF isOpen THEN w - SIDEBAR_WIDTH ELSE w

\* a / b rounded to the nearest integer (b > 0).
RoundDiv(a, b) == (2 * a + b) \div (2 * b)

\* Faulty variant of Eased: the cube is added (ease = 1 + (1 - progress)^3),
\* a curve that comes to the target from beyond it.
EasedFromBeyond(start, target, elapsed) ==
    LET d == animation_duration
        e == IF elapsed > d THEN d ELSE elapsed
        r == d - e
    IN  start + RoundDiv((target - start) * (d * d * d + r * r * r), d * d * d)

\* start + (target - start) * ease, with progress = min(elapsed / duration, 1)
\* and ease = 1 - (1 - progress)^3.
Eased(start, target, elapsed) ==
    LET d == animation_duration
        e == IF elapsed > d THEN d ELSE elapsed
        r == d - e
    IN  start + RoundDiv((target - start) * (d * d * d - r * r * r), d * d * d)

FreeTask == {t \in TaskIds : analyses[t].st = "idle"}
FreeCapture == {c \in CaptureIds : captures[c].st = "idle"}
InFlight == {t \in TaskIds : analyses[t].st # "idle"}

\* A thread's locals: an analysis thread's copy of the image bytes, prompt,
\* model name and, once the exchange with the endpoint has ended, the
\* exchange it was and its outcome; a capture
\* thread's target and, once the capture has ended, the PNG bytes and which
\* capture gave them.
NoOutcome == [kind |-> "", text |-> EmptyText]
NoExchange == Exchange("", "", "", NoBody)
IdleTask == [st |-> "idle", image |-> NoBytes, prompt |-> DefaultPrompt,
             model |-> "llava:latest", exchange |-> NoExchange, outcome |-> NoOutcome]
IdleCapture == [st |-> "idle", kind |-> "screen", title |-> "",
                bytes |-> NoBytes, tag |-> ""]

\* The holders of the cell's lock.  The render thread takes and drops it
\* inside its steps and is never its holder between two of them.
CaptureThread(c) == <<"capture", c>>
AnalysisThread(t) == <<"analysis", t>>
RenderThread == <<"render", 0>>

Init ==
    /\ open = FALSE
    /\ target_x = 0
    /\ current_x = 0
    /\ animation_start_x = 0
    /\ animation_start_time = None
    /\ was_layout_initialized = FALSE
    /\ model_name = "llava:latest"
    /\ selected_window = None
    /\ chat_history = << >>
    /\ width = 0
    /\ repaint = FALSE
    /\ rpc = "begin"
    /\ image_to_load = None
    /\ texture_handle_clone = None
    /\ ai_response_cloned = EmptyText
    /\ processing_cloned = FALSE
    /\ processing = FALSE
    /\ ai_response = EmptyText
    /\ image_data = NoBytes
    /\ current_image = None
    /\ state_lock = None
    /\ manager_image = None
    /\ manager_lock = 0
    /\ analyses = [t \in TaskIds |-> IdleTask]
    /\ captures = [c \in CaptureIds |-> IdleCapture]
    /\ inputs = 0
    /\ last = <<"init", "">>

\* ------------------------------------------------------------ update: the panel
\* Faulty variant of AnimationDone: progress > 1.0, which the capped progress
\* never is.
AnimationDoneStrict(elapsed) == elapsed > animation_duration

\* progress >= 1.0, with progress = (elapsed / animation_duration).min(1.0).
AnimationDone(elapsed) == elapsed >= animation_duration

\* update up to the drawing of the side bar: layout initialisation, the
\* correction of an idle panel, the animation step.  w is the width of the
\* window in this frame.
Begin(w) ==
    /\ rpc = "begin"
    /\ LET init == ~was_layout_initialized /\ w > 0
           initial_x == PanelX(open, w)
           cx0 == IF init THEN initial_x ELSE current_x
           tx0 == IF init THEN initial_x ELSE target_x
           sx0 == IF init THEN initial_x ELSE animation_start_x
           correct == PanelX(open, w)
           idle == animation_start_time = None
           fix == idle /\ (cx0 # correct \/ tx0 # correct)
           cx1 == IF fix THEN correct ELSE cx0
           tx1 == IF fix THEN correct ELSE tx0
           sx1 == IF fix THEN correct ELSE sx0
           elapsed == IF idle THEN 0 ELSE animation_start_time[1]
           done == ~idle /\ AnimationDone(elapsed)
           cx2 == IF idle THEN cx1
                  ELSE IF done THEN tx1 ELSE Eased(sx1, tx1, elapsed)
           sx2 == IF done THEN cx2 ELSE sx1
       IN  /\ was_layout_initialized' = (was_layout_initialized \/ init)
           /\ current_x' = cx2
           /\ target_x' = tx1
           /\ animation_start_x' = sx2
           /\ animation_start_time' = IF done THEN None ELSE animation_start_time
           /\ repaint' = ~idle
           /\ rpc' = IF cx2 < w + SIDEBAR_WIDTH THEN "sidebar" ELSE "handle"
    /\ width' = w
    /\ last' = <<"begin", IF animation_start_time = None
                          THEN IF w # width THEN "resized" ELSE ""
                          ELSE IF AnimationDone(animation_start_time[1])
                               THEN "done" ELSE "step">>
    /\ UNCHANGED <<open, appVars, cellVars, managerVars, state_lock, threadVars, image_to_load, chatLocals, inputs>>

\* Time passes while an animation runs (elapsed is capped at the duration:
\* progress is min(.., 1)).
Tick ==
    /\ animation_start_time # None
    /\ animation_start_time[1] < animation_duration
    /\ animation_start_time' = Some(animation_start_time[1] + 1)
    /\ UNCHANGED <<open, target_x, current_x, animation_start_x, was_layout_initialized,
                   width, repaint, appVars, cellVars, managerVars, state_lock, threadVars,
                   rpc, image_to_load, chatLocals, inputs, last>>

\* Faulty variant of CloseClick: the animation starts from the open position,
\* wherever the panel is.
CloseClickFromOpen ==
    /\ rpc = "sidebar"
    /\ state_lock = None
    /\ inputs < MaxInputs
    /\ inputs' = inputs + 1
    /\ open' = FALSE
    /\ target_x' = width
    /\ animation_start_x' = width - SIDEBAR_WIDTH
    /\ animation_start_time' = Some(0)
    /\ rpc' = "texture"
    /\ last' = <<"close", "">>
    /\ UNCHANGED <<current_x, was_layout_initialized, width, repaint, appVars, cellVars,
                   managerVars, state_lock, threadVars, image_to_load, chatLocals>>

\* The close button of the side bar.
CloseClick ==
    /\ rpc = "sidebar"
    /\ state_lock = None
    /\ inputs < MaxInputs
    /\ inputs' = inputs + 1
    /\ open' = FALSE
    /\ target_x' = width
    /\ animation_start_x' = current_x
    /\ animation_start_time' = Some(0)
    /\ rpc' = "texture"
    /\ last' = <<"close", "">>
    /\ UNCHANGED <<current_x, was_layout_initialized, width, repaint, appVars, cellVars,
                   managerVars, state_lock, threadVars, image_to_load, chatLocals>>

\* Faulty variant of HandleClick: the click sets the target and leaves
\* animation_start_time alone.
HandleClickNoStart ==
    /\ rpc = "handle"
    /\ inputs < MaxInputs
    /\ inputs' = inputs + 1
    /\ open' = ~open
    /\ target_x' = PanelX(~open, width)
    /\ animation_start_x' = current_x
    /\ rpc' = "begin"
    /\ last' = <<"toggle", "">>
    /\ UNCHANGED <<current_x, animation_start_time, was_layout_initialized, width, repaint,
                   appVars, cellVars, managerVars, state_lock, threadVars, image_to_load, chatLocals>>

\* The handle, drawn last in update: a click toggles the panel.
HandleClick ==
    /\ rpc = "handle"
    /\ inputs < MaxInputs
    /\ inputs' = inputs + 1
    /\ open' = ~open
    /\ target_x' = PanelX(~open, width)
    /\ animation_start_x' = current_x
    /\ animation_start_time' = Some(0)
    /\ rpc' = "begin"
    /\ last' = <<"toggle", "">>
    /\ UNCHANGED <<current_x, was_layout_initialized, width, repaint, appVars, cellVars,
                   managerVars, state_lock, threadVars, image_to_load, chatLocals>>

HandleNoClick ==
    /\ rpc = "handle"
    /\ rpc' = "begin"
    /\ last' = <<"frame_end", "">>
    /\ UNCHANGED <<panelVars, appVars, cellVars, managerVars, state_lock, threadVars,
                   image_to_load, chatLocals, inputs>>

\* ------------------------------------------------------------ starting threads
LowestFree(S) == CHOOSE x \in S : \A y \in S : x <= y

\* capture_full_screen: spawns a thread (sleep 300 ms, then capture).
capture_full_screen ==
    captures' = [captures EXCEPT ![LowestFree(FreeCapture)] =
                    [IdleCapture EXCEPT !.st = "spawned"]]

\* capture_selected_window: spawns a thread when a window is selected.
capture_selected_window(selected) ==
    IF selected = None
    THEN UNCHANGED captures
    ELSE captures' = [captures EXCEPT ![LowestFree(FreeCapture)] =
                        [IdleCapture EXCEPT !.st = "spawned", !.kind = "window",
                                            !.title = selected[1]]]

\* Faulty variant of StartAnalysis: a request made while processing is set is
\* dropped.
StartAnalysisGated(prompt, placeholder, no_image) ==
    IF image_data = NoBytes
    THEN /\ ai_response' = no_image
         /\ UNCHANGED <<processing, analyses>>
    ELSE IF processing
    THEN UNCHANGED <<processing, ai_response, analyses>>
    ELSE /\ processing' = TRUE
         /\ ai_response' = placeholder
         /\ analyses' = [analyses EXCEPT ![LowestFree(FreeTask)] =
                            [IdleTask EXCEPT !.st = "request", !.image = image_data,
                                             !.prompt = prompt, !.model = model_name]]

\* The common shape of analyze_image and analyze_with_prompt: with no image
\* bytes, a message and no thread; else a copy of the bytes, processing and a
\* placeholder text, and a thread.
StartAnalysis(prompt, placeholder, no_image) ==
    IF image_data = NoBytes
    THEN /\ ai_response' = no_image
         /\ UNCHANGED <<processing, analyses>>
    ELSE /\ processing' = TRUE
         /\ ai_response' = placeholder
         /\ analyses' = [analyses EXCEPT ![LowestFree(FreeTask)] =
                            [IdleTask EXCEPT !.st = "request", !.image = image_data,
                                             !.prompt = prompt, !.model = model_name]]

analyze_image == StartAnalysis(DefaultPrompt, MsgProcessingImage, MsgCaptureFirst)

\* Faulty variant of analyze_with_prompt: the prompt is cut at the first
\* blank, as the line of a command is.
analyze_with_first_word(prompt) ==
    StartAnalysis(<<prompt[1]>>, MsgProcessingPrompt, MsgCaptureForPrompt)

\* analyze_with_prompt: the thread calls set_prompt with the prompt.
analyze_with_prompt(prompt) ==
    StartAnalysis(prompt, MsgProcessingPrompt, MsgCaptureForPrompt)

\* ------------------------------------------------------------ update: the side bar
SidebarNoClick ==
    /\ rpc = "sidebar"
    /\ state_lock = None
    /\ rpc' = "texture"
    /\ last' = <<"sidebar", "">>
    /\ UNCHANGED <<panelVars, appVars, cellVars, managerVars, state_lock, threadVars,
                   image_to_load, chatLocals, inputs>>

\* "Capture Screen".
CaptureScreenClick ==
    /\ rpc = "sidebar"
    /\ state_lock = None
    /\ inputs < MaxInputs
    /\ capture_full_screen
    /\ inputs' = inputs + 1
    /\ rpc' = "texture"
    /\ last' = <<"capture_screen_click", "">>
    /\ UNCHANGED <<panelVars, appVars, cellVars, managerVars, state_lock, analyses,
                   image_to_load, chatLocals>>

\* "Capture Window": refreshes the window list and selects its first entry
\* when nothing is selected.
CaptureWindowClick ==
    /\ rpc = "sidebar"
    /\ state_lock = None
    /\ selected_window' = IF Len(WindowList) > 0 /\ selected_window = None
                          THEN Some(WindowList[1]) ELSE selected_window
    /\ rpc' = "texture"
    /\ last' = <<"capture_window_click", "">>
    /\ UNCHANGED <<panelVars, model_name, chat_history, cellVars, managerVars, state_lock,
                   threadVars, image_to_load, chatLocals, inputs>>

\* "Capture", shown beside the window selector.
CaptureSelectedClick ==
    /\ rpc = "sidebar"
    /\ state_lock = None
    /\ selected_window # None
    /\ inputs < MaxInputs
    /\ capture_selected_window(selected_window)
    /\ inputs' = inputs + 1
    /\ rpc' = "texture"
    /\ last' = <<"capture_selected_click", "">>
    /\ UNCHANGED <<panelVars, appVars, cellVars, managerVars, state_lock, analyses,
                   image_to_load, chatLocals>>

\* Faulty variant of AnalyzeOffered: the button is offered while an analysis
\* is processing.
AnalyzeOfferedWhileProcessing == image_data # NoBytes

\* Whether the frame offers the Analyze button: it read processing false and
\* image bytes present.
AnalyzeOffered == ~processing /\ image_data # NoBytes

\* "Analyze".
AnalyzeClick ==
    /\ rpc = "sidebar"
    /\ state_lock = None
    /\ AnalyzeOffered
    /\ inputs < MaxInputs
    /\ analyze_image
    /\ inputs' = inputs + 1
    /\ rpc' = "texture"
    /\ last' = <<"analyze_click", "">>
    /\ UNCHANGED <<panelVars, appVars, image_data, current_image, managerVars, state_lock,
                   captures, image_to_load, chatLocals>>

\* ------------------------------------------------------------ update: the texture
\* Faulty variant of TextureCheck: the guard of the cell is not dropped
\* before the manager is asked.
TextureCheckKeepsLock ==
    /\ rpc = "texture"
    /\ state_lock = None
    /\ LET should_load_texture == current_image = None /\ image_data # NoBytes
       IN  /\ rpc' = IF should_load_texture THEN "clone" ELSE "chat"
           /\ state_lock' = IF should_load_texture THEN RenderThread ELSE None
    /\ last' = <<"texture_check", "">>
    /\ UNCHANGED <<panelVars, appVars, cellVars, managerVars, threadVars,
                   image_to_load, chatLocals, inputs>>

\* The frame looks, under the lock of the cell, whether there is a texture to
\* load: the cell has bytes and no texture.  The lock is dropped before the
\* manager is asked.
TextureCheck ==
    /\ rpc = "texture"
    /\ state_lock = None
    /\ LET should_load_texture == current_image = None /\ image_data # NoBytes
       IN  rpc' = IF should_load_texture THEN "clone" ELSE "chat"
    /\ last' = <<"texture_check", "">>
    /\ UNCHANGED <<panelVars, appVars, cellVars, managerVars, state_lock, threadVars,
                   image_to_load, chatLocals, inputs>>

\* screenshot_manager.lock(): the frame waits for the manager and clones the
\* image it has.
TextureLoad ==
    /\ rpc = "clone"
    /\ manager_lock = 0
    /\ image_to_load' = manager_image
    /\ rpc' = IF manager_image # None THEN "store" ELSE "chat"
    /\ last' = <<"texture_load", "">>
    /\ UNCHANGED <<panelVars, appVars, cellVars, managerVars, state_lock, threadVars,
                   chatLocals, inputs>>

TextureStore ==
    /\ rpc = "store"
    /\ state_lock = None
    /\ current_image' = Some(Texture(image_to_load[1]))
    /\ image_to_load' = None
    /\ rpc' = "chat"
    /\ last' = <<"texture_store", "">>
    /\ UNCHANGED <<panelVars, appVars, processing, ai_response, image_data,
                   managerVars, state_lock, threadVars, chatLocals, inputs>>

\* ------------------------------------------------------------ update: the transcript
AssistantEntry(text) == [text |-> text, is_user |-> FALSE]
UserEntry(text) == [text |-> text, is_user |-> TRUE]

is_new_ai_message(history, text) ==
    \/ history = << >>
    \/ history[Len(history)].text # text
    \/ history[Len(history)].is_user

\* What the frame does with its copy of the result text: shown, and appended
\* to the history when nothing was processing and it is not the last entry
\* already.
PushDue(text, is_processing) ==
    /\ text # EmptyText
    /\ ~is_processing
    /\ is_new_ai_message(chat_history, text)

\* The frame copies the texture handle, the result text and the processing
\* flag out of the cell, in one critical section.  The scroll area that
\* follows shows them; it has a step of its own when there is a text to
\* append.
ChatSnapshot ==
    /\ rpc = "chat"
    /\ state_lock = None
    /\ IF PushDue(ai_response, processing)
       THEN /\ texture_handle_clone' = current_image
            /\ ai_response_cloned' = ai_response
            /\ processing_cloned' = processing
            /\ rpc' = "scroll"
       ELSE /\ UNCHANGED chatLocals
            /\ rpc' = "input"
    /\ last' = <<"chat", "">>
    /\ UNCHANGED <<panelVars, appVars, cellVars, managerVars, state_lock, threadVars,
                   image_to_load, inputs>>

\* The same copy in a frame in which a button under the texture is clicked:
\* the buttons are there when the copy has a texture.
ButtonUnderTexture(button) ==
    /\ rpc = "chat"
    /\ state_lock = None
    /\ current_image # None
    /\ inputs < MaxInputs
    /\ inputs' = inputs + 1
    /\ texture_handle_clone' = current_image
    /\ ai_response_cloned' = ai_response
    /\ processing_cloned' = processing
    /\ rpc' = button
    /\ last' = <<button, "click">>
    /\ UNCHANGED <<panelVars, appVars, cellVars, managerVars, state_lock, threadVars,
                   image_to_load>>

\* "Save Image" and "Copy".
SaveClick == ButtonUnderTexture("save")
CopyClick == ButtonUnderTexture("copy")

\* save_image: locks the manager (the frame waits for it) and writes the
\* image it has to the file chosen.
save_image ==
    /\ rpc = "save"
    /\ manager_lock = 0
    /\ rpc' = "scroll"
    /\ last' = <<"save", "done">>
    /\ UNCHANGED <<panelVars, appVars, cellVars, managerVars, state_lock, threadVars,
                   image_to_load, chatLocals, inputs>>

\* copy_image_to_clipboard: locks the manager and hands the image it has to
\* the clipboard.
copy_image_to_clipboard ==
    /\ rpc = "copy"
    /\ manager_lock = 0
    /\ rpc' = "scroll"
    /\ last' = <<"copy", "done">>
    /\ UNCHANGED <<panelVars, appVars, cellVars, managerVars, state_lock, threadVars,
                   image_to_load, chatLocals, inputs>>

\* Faulty variant of ChatPush: the text takes the place of the last entry of
\* the history.
ChatPushReplacesLast ==
    /\ rpc = "scroll"
    /\ IF PushDue(ai_response_cloned, processing_cloned)
       THEN /\ state_lock = None
            /\ chat_history' =
                  IF chat_history = << >> THEN <<AssistantEntry(ai_response_cloned)>>
                  ELSE [chat_history EXCEPT ![Len(chat_history)] =
                           AssistantEntry(ai_response_cloned)]
            /\ ai_response' = IF ai_response = ai_response_cloned THEN EmptyText
                              ELSE ai_response
            /\ last' = <<"chat_push", "">>
       ELSE /\ UNCHANGED <<chat_history, ai_response>>
            /\ last' = <<"chat_shown", "">>
    /\ texture_handle_clone' = None
    /\ ai_response_cloned' = EmptyText
    /\ processing_cloned' = FALSE
    /\ rpc' = "input"
    /\ UNCHANGED <<panelVars, model_name, selected_window, processing, image_data,
                   current_image, managerVars, state_lock, threadVars, image_to_load, inputs>>

\* The end of the scroll area: the copy of the result text is appended to
\* the history when that is due, and the field of the cell is cleared when
\* it still holds the text that was copied.
ChatPush ==
    /\ rpc = "scroll"
    /\ IF PushDue(ai_response_cloned, processing_cloned)
       THEN /\ state_lock = None
            /\ chat_history' = Append(chat_history, AssistantEntry(ai_response_cloned))
            /\ ai_response' = IF ai_response = ai_response_cloned THEN EmptyText
                              ELSE ai_response
            /\ last' = <<"chat_push", "">>
       ELSE /\ UNCHANGED <<chat_history, ai_response>>
            /\ last' = <<"chat_shown", "">>
    /\ texture_handle_clone' = None
    /\ ai_response_cloned' = EmptyText
    /\ processing_cloned' = FALSE
    /\ rpc' = "input"
    /\ UNCHANGED <<panelVars, model_name, selected_window, processing, image_data,
                   current_image, managerVars, state_lock, threadVars, image_to_load, inputs>>

\* ------------------------------------------------------------ update: the chat input
\* A line is the trimmed input, split at its blanks.
Lines ==
    { <<"/capture">>, <<"/window">>, <<"/window", "editor">>, <<"/window", "ghost">>,
      <<"/model">>, <<"/model", "llava:13b">>, <<"/analyze">>, <<"/clear">>,
      <<"/Help">>, <<"/bogus">>, <<"what", "is", "this?">> }

\* Faulty variant of ToLowercase: the case is kept.
ToLowercaseKeepsCase(word) == word

\* str::starts_with('/') and str::to_lowercase on the first word of a line.
StartsWithSlash(word) ==
    word \in {"/capture", "/window", "/model", "/analyze", "/clear", "/Help", "/bogus"}
ToLowercase(word) == IF word = "/Help" THEN "/help" ELSE word

\* The window of the list whose lower-cased title contains the lower-cased name.
MatchedWindow(name) ==
    IF \E i \in 1..Len(WindowList) : WindowList[i] = name THEN Some(name) ELSE None

\* Faulty variant of Respond: the response text is dropped.
RespondDropped(response_text, cleared) == ai_response' = ai_response

\* if !response_text.is_empty() { state.ai_response = response_text }
Respond(response_text, cleared) ==
    ai_response' = IF response_text # EmptyText THEN response_text
                   ELSE IF cleared THEN EmptyText ELSE ai_response

\* handle_user_input: a line that starts with '/' is a command, any other line
\* is the prompt of an analysis.  history is the transcript with the user's
\* entry appended.
handle_user_input(line, history) ==
    LET command == ToLowercase(line[1])
        has_arg == Len(line) > 1
    IN  IF StartsWithSlash(line[1])
        THEN CASE command = "/capture" ->
                    /\ capture_full_screen
                    /\ Respond(EmptyText, FALSE)
                    /\ chat_history' = history
                    /\ UNCHANGED <<model_name, selected_window, processing, image_data,
                                   current_image, analyses>>
               [] command = "/window" ->
                    IF has_arg
                    THEN LET matched == MatchedWindow(line[2])
                             selected == IF matched # None THEN matched ELSE Some(line[2])
                         IN  /\ selected_window' = selected
                             /\ capture_selected_window(selected)
                             /\ Respond(EmptyText, FALSE)
                             /\ chat_history' = history
                             /\ UNCHANGED <<model_name, processing, image_data,
                                            current_image, analyses>>
                    ELSE /\ Respond(MsgWindowUsage, FALSE)
                         /\ chat_history' = history
                         /\ UNCHANGED <<model_name, selected_window, processing, image_data,
                                        current_image, threadVars>>
               [] command = "/model" ->
                    /\ model_name' = IF has_arg THEN line[2] ELSE model_name
                    /\ Respond(IF has_arg THEN MsgModelSet(line[2])
                               ELSE MsgModelCurrent(model_name), FALSE)
                    /\ chat_history' = history
                    /\ UNCHANGED <<selected_window, processing, image_data, current_image,
                                   threadVars>>
               [] command = "/analyze" ->
                    /\ IF image_data = NoBytes
                       THEN /\ Respond(MsgCaptureFirstCommand, FALSE)
                            /\ UNCHANGED <<processing, analyses>>
                       ELSE analyze_image
                    /\ chat_history' = history
                    /\ UNCHANGED <<model_name, selected_window, image_data, current_image,
                                   captures>>
               [] command = "/clear" ->
                    /\ chat_history' = << >>
                    /\ current_image' = None
                    /\ image_data' = NoBytes
                    /\ Respond(MsgCleared, TRUE)
                    /\ UNCHANGED <<model_name, selected_window, processing, threadVars>>
               [] command = "/help" ->
                    /\ Respond(MsgHelp, FALSE)
                    /\ chat_history' = history
                    /\ UNCHANGED <<model_name, selected_window, processing, image_data,
                                   current_image, threadVars>>
               [] OTHER ->
                    /\ Respond(MsgUnknown(command), FALSE)
                    /\ chat_history' = history
                    /\ UNCHANGED <<model_name, selected_window, processing, image_data,
                                   current_image, threadVars>>
        ELSE /\ IF image_data = NoBytes
                THEN /\ ai_response' = MsgCaptureFirstPrompt
                     /\ UNCHANGED <<processing, analyses>>
                ELSE analyze_with_prompt(line)
             /\ chat_history' = history
             /\ UNCHANGED <<model_name, selected_window, image_data, current_image,
                            captures>>

\* draw_modern_chat_input: a non-empty line is sent: the user's entry is
\* appended to the history and the line is handled.
\* handle_user_input locks the cell for every line but a /capture and a
\* /window with a name, which only start a capture thread.
LocksState(line) ==
    ~(\/ ToLowercase(line[1]) = "/capture"
      \/ ToLowercase(line[1]) = "/window" /\ Len(line) > 1)

Send(line) ==
    /\ rpc = "input"
    /\ LocksState(line) => state_lock = None
    /\ inputs < MaxInputs
    /\ handle_user_input(line, Append(chat_history, UserEntry(line)))
    /\ inputs' = inputs + 1
    /\ rpc' = "handle"
    /\ last' = <<"send", ToLowercase(line[1])>>
    /\ UNCHANGED <<panelVars, managerVars, state_lock, image_to_load, chatLocals>>

NoSend ==
    /\ rpc = "input"
    /\ rpc' = "handle"
    /\ last' = <<"input", "">>
    /\ UNCHANGED <<panelVars, appVars, cellVars, managerVars, state_lock, threadVars,
                   image_to_load, chatLocals, inputs>>

\* ------------------------------------------------------------ capture threads
\* Faulty variant of CaptureLock: the thread locks the cell before the
\* capture, together with the manager.
CaptureLockBoth(c) ==
    /\ captures[c].st = "spawned"
    /\ manager_lock = 0
    /\ state_lock = None
    /\ manager_lock' = c
    /\ state_lock' = CaptureThread(c)
    /\ captures' = [captures EXCEPT ![c].st = "capturing"]
    /\ last' = <<"capture_lock", "">>
    /\ UNCHANGED <<panelVars, appVars, cellVars, manager_image, analyses,
                   rpc, image_to_load, chatLocals, inputs>>

\* screenshot_manager.lock(): the thread waits until the lock is free.
CaptureLock(c) ==
    /\ captures[c].st = "spawned"
    /\ manager_lock = 0
    /\ manager_lock' = c
    /\ captures' = [captures EXCEPT ![c].st = "capturing"]
    /\ last' = <<"capture_lock", "">>
    /\ UNCHANGED <<panelVars, appVars, cellVars, state_lock, manager_image, analyses,
                   rpc, image_to_load, chatLocals, inputs>>

Failed == "failed"
\* capture_window(title): the lookup finds no window for a title that is not
\* on the screen; a window that is there may still fail to be captured.
WindowFound(title) == MatchedWindow(title) # None

\* Faulty variant of Captured: a failed window capture is not followed by a
\* capture of the full screen.
CapturedNoFallback(kind, shot, fallback) ==
    IF shot # Failed THEN Some(shot) ELSE None

\* The image the thread ends with in the manager: the window's, else (window
\* capture only) the full screen's, else none.
Captured(kind, shot, fallback) ==
    IF shot # Failed THEN Some(shot)
    ELSE IF kind = "window" /\ fallback # Failed THEN Some(fallback)
    ELSE None

\* Which capture gave the image, for the record in last.
CaptureTag(kind, shot, fallback) ==
    IF shot # Failed THEN "captured"
    ELSE IF kind # "window" THEN "failed"
    ELSE IF fallback = Failed THEN "both_failed"
    ELSE "fallback"

\* Faulty variant of get_current_image_data: no bytes are returned.
get_current_image_data_none(image) == None

\* ScreenshotManager::get_current_image_data: Err with no image in the
\* manager, else the image written as PNG into a buffer in memory (a write
\* that has no failing case for an image a capture has just returned).
get_current_image_data(image) ==
    IF image = None THEN None ELSE Some(Png(image[1]))

\* The thread, holding the manager lock: the capture (shot) and, for a window
\* capture that failed, the full screen (fallback) have returned and the image
\* is written as PNG.  With bytes to publish the thread takes the lock of the
\* cell; with none it logs the error, unlocks the manager and ends.
CaptureRun(c, shot, fallback) ==
    /\ captures[c].st = "capturing"
    /\ manager_lock = c
    /\ captures[c].kind = "window" /\ ~WindowFound(captures[c].title) => shot = Failed
    /\ LET got == Captured(captures[c].kind, shot, fallback)
           image_data_bytes == get_current_image_data(got)
           tag == CaptureTag(captures[c].kind, shot, fallback)
       IN  /\ manager_image' = IF got # None THEN got ELSE manager_image
           /\ IF got # None /\ image_data_bytes # None
              THEN /\ state_lock = None
                   /\ state_lock' = CaptureThread(c)
                   /\ manager_lock' = manager_lock
                   /\ captures' = [captures EXCEPT ![c].st = "publishing",
                                       ![c].bytes = image_data_bytes[1],
                                       ![c].tag = tag]
                   /\ last' = <<"capture_shot", tag>>
              ELSE /\ state_lock' = state_lock
                   /\ manager_lock' = 0
                   /\ captures' = [captures EXCEPT ![c] = IdleCapture]
                   /\ last' = <<"capture_done", tag>>
    /\ UNCHANGED <<panelVars, appVars, cellVars, analyses, rpc, image_to_load, chatLocals, inputs>>

\* Faulty variant of Publish: the texture handle is left as it was.
PublishKeepsTexture(bytes) ==
    /\ image_data' = bytes
    /\ current_image' = current_image

\* state.image_data = image_data_bytes; state.current_image = None
Publish(bytes) ==
    /\ image_data' = bytes
    /\ current_image' = None

\* Faulty variant of CapturePublish: the analysis threads read the bytes of
\* the cell, not a copy of their own.
CapturePublishShared(c) ==
    /\ captures[c].st = "publishing"
    /\ state_lock = CaptureThread(c)
    /\ Publish(captures[c].bytes)
    /\ state_lock' = None
    /\ manager_lock' = 0
    /\ captures' = [captures EXCEPT ![c] = IdleCapture]
    /\ analyses' = [t \in TaskIds |->
                       IF analyses[t].st = "request"
                       THEN [analyses[t] EXCEPT !.image = captures[c].bytes]
                       ELSE analyses[t]]
    /\ last' = <<"capture_done", captures[c].tag>>
    /\ UNCHANGED <<panelVars, appVars, processing, ai_response, manager_image,
                   rpc, image_to_load, chatLocals, inputs>>

\* The thread, holding both locks: the write to the cell, and the two locks
\* are released.
CapturePublish(c) ==
    /\ captures[c].st = "publishing"
    /\ state_lock = CaptureThread(c)
    /\ Publish(captures[c].bytes)
    /\ state_lock' = None
    /\ manager_lock' = 0
    /\ captures' = [captures EXCEPT ![c] = IdleCapture]
    /\ last' = <<"capture_done", captures[c].tag>>
    /\ UNCHANGED <<panelVars, appVars, processing, ai_response, manager_image, analyses,
                   rpc, image_to_load, chatLocals, inputs>>

\* ------------------------------------------------------------ analysis threads
\* LocalModel::new and process_image have returned after the exchange x; the
\* thread takes the lock of the cell.
AnalysisReply(t, x) ==
    /\ analyses[t].st = "request"
    /\ state_lock = None
    /\ state_lock' = AnalysisThread(t)
    /\ analyses' = [analyses EXCEPT ![t].st = "publishing", ![t].exchange = x,
                                    ![t].outcome = Outcome(x, analyses[t].model)]
    /\ last' = <<"analysis_reply", Outcome(x, analyses[t].model).kind>>
    /\ UNCHANGED <<panelVars, appVars, cellVars, managerVars, captures,
                   rpc, image_to_load, chatLocals, inputs>>

\* Faulty variant of AnalysisPublish: the thread drops the texture with its
\* write, as a capture thread does.
AnalysisPublishDropsTexture(t) ==
    /\ analyses[t].st = "publishing"
    /\ state_lock = AnalysisThread(t)
    /\ ai_response' = ResultText(analyses[t].outcome, analyses[t].model)
    /\ current_image' = None
    /\ state_lock' = None
    /\ analyses' = [analyses EXCEPT ![t].st = "published"]
    /\ last' = <<"analysis_publish", analyses[t].outcome.kind>>
    /\ UNCHANGED <<panelVars, appVars, processing, image_data,
                   managerVars, captures, rpc, image_to_load, chatLocals, inputs>>

\* The thread writes the text for the outcome and unlocks.
AnalysisPublish(t) ==
    /\ analyses[t].st = "publishing"
    /\ state_lock = AnalysisThread(t)
    /\ ai_response' = ResultText(analyses[t].outcome, analyses[t].model)
    /\ state_lock' = None
    /\ analyses' = [analyses EXCEPT ![t].st = "published"]
    /\ last' = <<"analysis_publish", analyses[t].outcome.kind>>
    /\ UNCHANGED <<panelVars, appVars, processing, image_data, current_image,
                   managerVars, captures, rpc, image_to_load, chatLocals, inputs>>

\* Faulty variant of AnalysisFinish: the thread ends with processing as it
\* was.
AnalysisFinishKeepsProcessing(t) ==
    /\ analyses[t].st = "published"
    /\ state_lock = None
    /\ processing' = processing
    /\ analyses' = [analyses EXCEPT ![t] = IdleTask]
    /\ last' = <<"analysis_finish", "">>
    /\ UNCHANGED <<panelVars, appVars, ai_response, image_data, current_image,
                   managerVars, state_lock, captures, rpc, image_to_load, chatLocals, inputs>>

\* The last statement of the thread: state.processing = false.
AnalysisFinish(t) ==
    /\ analyses[t].st = "published"
    /\ state_lock = None
    /\ processing' = FALSE
    /\ analyses' = [analyses EXCEPT ![t] = IdleTask]
    /\ last' = <<"analysis_finish", "">>
    /\ UNCHANGED <<panelVars, appVars, ai_response, image_data, current_image,
                   managerVars, state_lock, captures, rpc, image_to_load, chatLocals, inputs>>

\* ------------------------------------------------------------ specifications
\* The steps of a frame that take no input from the user: those every frame
\* has, and with them those of a frame that finds a texture to load or has
\* a scroll area to fill.
EmptyFrameStep ==
    \/ SidebarNoClick
    \/ TextureCheck
    \/ ChatSnapshot
    \/ NoSend
    \/ HandleNoClick

FrameStep ==
    \/ EmptyFrameStep
    \/ TextureLoad
    \/ ChatPush

\* The capture threads, with the images the screen can show.
CaptureStep(images) ==
    \/ \E c \in CaptureIds : CaptureLock(c)
    \/ \E c \in CaptureIds, shot \in images \cup {Failed}, fallback \in images \cup {Failed} :
          CaptureRun(c, shot, fallback)
    \/ \E c \in CaptureIds : CapturePublish(c)

\* The analysis threads, with the kinds of outcome the endpoint can give.
AnalysisStep(kinds) ==
    \/ \E t \in TaskIds : \E x \in UsualExchanges :
          Outcome(x, analyses[t].model).kind \in kinds /\ AnalysisReply(t, x)
    \/ \E t \in TaskIds : AnalysisPublish(t)
    \/ \E t \in TaskIds : AnalysisFinish(t)

OutcomeKinds == {"response", "error", "init_error"}
AnalysisLines == {<<"/analyze">>, <<"what", "is", "this?">>}

\* Captures and analyses: the Capture Screen and Analyze buttons, /analyze and
\* a prompt typed into the chat; the endpoint answers every request; the
\* window keeps its width and the panel is left alone.
Next ==
    \/ Begin(InitialWidth)
    \/ FrameStep
    \/ TextureStore
    \/ CaptureScreenClick
    \/ AnalyzeClick
    \/ \E line \in AnalysisLines : Send(line)
    \/ CaptureStep({"imgA"})
    \/ AnalysisStep({"response"})

Spec == Init /\ [][Next]_vars

\* The analysis threads keep running: a request returns (the HTTP client has
\* a timeout) and a thread that can take a step is scheduled; a capture
\* thread that has the lock of the cell writes and unlocks.
AnalysisFairness ==
    /\ WF_vars(AnalysisStep(OutcomeKinds))
    /\ WF_vars(\E c \in CaptureIds : CapturePublish(c))

\* The analysis threads to their end: analyze_image by the Analyze button,
\* analyze_with_prompt by a prompt typed into the chat.
FairNext ==
    \/ Begin(InitialWidth)
    \/ FrameStep
    \/ TextureStore
    \/ CaptureScreenClick
    \/ AnalyzeClick
    \/ Send(<<"what", "is", "this?">>)
    \/ CaptureStep({"imgA"})
    \/ AnalysisStep(OutcomeKinds)

FairSpec == Init /\ [][FairNext]_vars /\ AnalysisFairness

\* The analysis threads, with every exchange the endpoint can have.
EndpointStep ==
    \/ \E t \in TaskIds : \E x \in Exchanges : AnalysisReply(t, x)
    \/ \E t \in TaskIds : AnalysisPublish(t)
    \/ \E t \in TaskIds : AnalysisFinish(t)

\* The texts of the analysis threads: the Analyze button, with the model the
\* application starts with or the one a /model line names.
HintLines == {<<"/model", "llava:13b">>}

HintNext ==
    \/ Begin(InitialWidth)
    \/ FrameStep
    \/ TextureStore
    \/ CaptureScreenClick
    \/ AnalyzeClick
    \/ \E line \in HintLines : Send(line)
    \/ CaptureStep({"imgA"})
    \/ EndpointStep

HintSpec == Init /\ [][HintNext]_vars

\* An analysis in flight while the cell's image is replaced or cleared: the
\* screen shows one image and then another.
CopyNext ==
    \/ Begin(InitialWidth)
    \/ FrameStep
    \/ TextureStore
    \/ CaptureScreenClick
    \/ AnalyzeClick
    \/ Send(<<"/clear">>)
    \/ CaptureStep({"imgA", "imgB"})
    \/ AnalysisStep({"response"})

CopySpec == Init /\ [][CopyNext]_vars

\* The chat input: every command, with the capture threads the commands
\* start; the analyses a command starts stay with the endpoint.
CommandLines ==
    { <<"/capture">>, <<"/window">>, <<"/window", "editor">>, <<"/model">>,
      <<"/model", "llava:13b">>, <<"/analyze">>, <<"/clear">>, <<"/Help">>, <<"/bogus">> }

CommandNext ==
    \/ Begin(InitialWidth)
    \/ FrameStep
    \/ TextureStore
    \/ \E line \in CommandLines : Send(line)
    \/ CaptureStep({"imgA"})

CommandSpec == Init /\ [][CommandNext]_vars

\* Requests typed into the chat only, so that the history holds every request
\* made since it was cleared last: /capture, /analyze and /clear, with the
\* threads they start.
ClearLines == {<<"/capture">>, <<"/analyze">>, <<"/clear">>}

ClearNext ==
    \/ Begin(InitialWidth)
    \/ FrameStep
    \/ TextureStore
    \/ \E line \in ClearLines : Send(line)
    \/ CaptureStep({"imgA"})
    \/ AnalysisStep({"response"})

ClearSpec == Init /\ [][ClearNext]_vars

\* The users of the two locks: the frame (the cell; the manager for the
\* texture, Save Image and Copy), the capture threads of a window (with the
\* full screen to fall back on), the analysis threads, /analyze and /clear.
LockLines == {<<"/analyze">>, <<"/clear">>}

LockNext ==
    \/ Begin(InitialWidth)
    \/ FrameStep
    \/ TextureStore
    \/ CaptureWindowClick
    \/ CaptureSelectedClick
    \/ AnalyzeClick
    \/ SaveClick
    \/ CopyClick
    \/ save_image
    \/ copy_image_to_clipboard
    \/ \E line \in LockLines : Send(line)
    \/ CaptureStep({"imgA"})
    \/ AnalysisStep({"response"})

\* Every thread that can take a step is scheduled: a capture and an exchange
\* with the endpoint return, and frames keep being rendered.
LockFairness ==
    /\ WF_vars(CaptureStep({"imgA"}))
    /\ WF_vars(AnalysisStep({"response"}))
    /\ WF_vars(\/ FrameStep
               \/ Begin(InitialWidth)
               \/ TextureStore
               \/ save_image
               \/ copy_image_to_clipboard)

LockSpec == Init /\ [][LockNext]_vars /\ LockFairness

\* Both kinds of thread at work on the cell: captures of a window that end
\* with the window, with the full screen or with nothing, and analyses that
\* end with an answer or with a failure.
TaskNext ==
    \/ Begin(InitialWidth)
    \/ FrameStep
    \/ TextureStore
    \/ CaptureWindowClick
    \/ CaptureSelectedClick
    \/ AnalyzeClick
    \/ CaptureStep({"imgA"})
    \/ AnalysisStep(OutcomeKinds)

TaskSpec == Init /\ [][TaskNext]_vars

\* Analyses started by the Analyze button only: the chat takes no line that
\* asks for an analysis.
ButtonLines == {<<"/clear">>, <<"/Help">>}

ButtonNext ==
    \/ Begin(InitialWidth)
    \/ FrameStep
    \/ TextureStore
    \/ CaptureScreenClick
    \/ AnalyzeClick
    \/ \E line \in ButtonLines : Send(line)
    \/ CaptureStep({"imgA"})
    \/ AnalysisStep(OutcomeKinds)

ButtonSpec == Init /\ [][ButtonNext]_vars

\* Captures: the three capture buttons (the window they capture is on the
\* screen), /capture, /window for a window that is not, and /clear; two images
\* the screen can show; no analysis.
CaptureLines == {<<"/capture">>, <<"/window", "ghost">>, <<"/clear">>}

CaptureNext ==
    \/ Begin(InitialWidth)
    \/ FrameStep
    \/ TextureStore
    \/ CaptureScreenClick
    \/ CaptureWindowClick
    \/ CaptureSelectedClick
    \/ \E line \in CaptureLines : Send(line)
    \/ CaptureStep({"imgA", "imgB"})

CaptureSpec == Init /\ [][CaptureNext]_vars

\* The panel: resizes, toggles and closes; no capture, no analysis, no chat.
PanelNext ==
    \/ \E w \in Widths : Begin(w)
    \/ Tick
    \/ EmptyFrameStep
    \/ CloseClick
    \/ HandleClick

PanelSpec == Init /\ [][PanelNext]_vars

\* The panel in a window that keeps the width its first frame found.
FixedWidthNext ==
    \/ \E w \in Widths : (was_layout_initialized => w = width) /\ Begin(w)
    \/ Tick
    \/ EmptyFrameStep
    \/ CloseClick
    \/ HandleClick

FixedWidthSpec == Init /\ [][FixedWidthNext]_vars

\* Frames keep being rendered and time advances.
PanelFairness ==
    /\ WF_vars(Tick)
    /\ WF_vars(EmptyFrameStep \/ \E w \in Widths : Begin(w))

FairPanelSpec == PanelSpec /\ PanelFairness

\* ------------------------------------------------------------ properties
\* Steps, told apart by what they change.
BeginStep == rpc = "begin" /\ rpc' # "begin"
ToggleStep == rpc = "handle" /\ rpc' = "begin" /\ last' = <<"toggle", "">>
CloseStep == rpc = "sidebar" /\ rpc' = "texture" /\ last' = <<"close", "">>
AnalyzeClickStep == rpc = "sidebar" /\ rpc' = "texture" /\ last' = <<"analyze_click", "">>
ChatAnalysisStep ==
    /\ rpc = "input" /\ rpc' = "handle"
    /\ last' \in {<<"send", "/analyze">>, <<"send", "what">>}
CaptureDoneStep(c) ==
    captures[c].st \in {"capturing", "publishing"} /\ captures'[c].st = "idle"

Animating == animation_start_time # None

\* C1: an analysis thread, whatever the outcome of its request, first
\* overwrites ai_response with the text for that outcome and then, as its
\* last step, sets processing to false; a thread leaves flight by that step
\* only, and when analyses are in flight there comes a state with none in
\* flight and processing false.
C1_ThreadSteps ==
    \A t \in TaskIds :
        /\ (analyses[t].st = "request" /\ analyses'[t].st # "request") =>
              /\ analyses'[t].st = "publishing"
              /\ analyses'[t].outcome \in Outcomes(analyses[t].model)
              /\ UNCHANGED <<processing, ai_response>>
        /\ (analyses[t].st = "publishing" /\ analyses'[t].st # "publishing") =>
              /\ analyses'[t].st = "published"
              /\ ai_response' = ResultText(analyses[t].outcome, analyses[t].model)
              /\ processing' = processing
        /\ (analyses[t].st = "published" /\ analyses'[t].st # "published") =>
              /\ analyses'[t].st = "idle"
              /\ processing' = FALSE
              /\ ai_response' = ai_response

C1_AnalysisEndsProcessing ==
    /\ [][C1_ThreadSteps]_vars
    /\ (InFlight # {}) ~> (InFlight = {} /\ ~processing)

\* An analysis whose model could not be initialised has just finished.
C1_FinishedAfterFailure ==
    /\ last = <<"analysis_finish", "">>
    /\ ~processing
    /\ ai_response = ResultText([kind |-> "init_error", text |-> ErrBuilder], "llava:latest")

\* C2 as stated: with empty image bytes every analysis request spawns no
\* thread, leaves processing as it is and writes one message, the same on
\* every entry path.
CaptureFirstTexts ==
    {MsgCaptureFirst, MsgCaptureFirstCommand, MsgCaptureFirstPrompt, MsgCaptureForPrompt}

AnalysisRequestStep == AnalyzeClickStep \/ ChatAnalysisStep

C2_SameTextOnEveryPath ==
    [][(AnalysisRequestStep /\ image_data = NoBytes) =>
          /\ UNCHANGED <<analyses, processing>>
          /\ \A m \in CaptureFirstTexts : ai_response' = m]_vars

\* C2: with empty image bytes an analysis request spawns no thread, leaves
\* processing as it is and writes the message of its entry path: /analyze
\* and a prompt have a message each; the Analyze button is not there to be
\* clicked, and the messages of analyze_image and analyze_with_prompt are
\* never written, their callers having tested the bytes first.
C2_TextOfThePath ==
    [][/\ (AnalysisRequestStep /\ image_data = NoBytes) =>
             /\ UNCHANGED <<analyses, processing>>
             /\ ChatAnalysisStep
             /\ ai_response' = IF last'[2] = "/analyze" THEN MsgCaptureFirstCommand
                               ELSE MsgCaptureFirstPrompt
       /\ ai_response' \notin {MsgCaptureFirst, MsgCaptureForPrompt}]_vars

\* /analyze was sent with no image, and a prompt before it.
C2_RefusedBothWays ==
    /\ last = <<"send", "/analyze">>
    /\ image_data = NoBytes
    /\ ai_response = MsgCaptureFirstCommand
    /\ InFlight = {}
    /\ \E i \in 1..Len(chat_history) :
          chat_history[i] = AssistantEntry(MsgCaptureFirstPrompt)

\* C3: the Analyze button starts an analysis only when processing is false
\* and the image bytes are there; with no analysis asked for in the chat at
\* most one analysis is in flight, and processing is set while it is.
C3_ButtonGated ==
    [][/\ AnalyzeClickStep =>
             /\ ~processing
             /\ image_data # NoBytes
             /\ InFlight = {}
             /\ Cardinality(InFlight') = 1
       /\ Cardinality(InFlight') <= 1
       /\ InFlight' # {} => processing']_vars

\* The button was clicked a second time, after the first analysis ended.
C3_SecondClick ==
    /\ last = <<"analyze_click", "">>
    /\ Cardinality(InFlight) = 1
    /\ processing
    /\ \E i \in 1..Len(chat_history) : ~chat_history[i].is_user

\* C4: an analysis asked for in the chat starts whether or not processing is
\* set; no request takes an analysis in flight away or changes it; an
\* analysis leaves flight only after publishing the text of its own outcome,
\* and analyses in flight together all come to their end.
C4_ChatSteps ==
    /\ (ChatAnalysisStep /\ image_data # NoBytes) =>
          Cardinality(InFlight') = Cardinality(InFlight) + 1
    /\ \A t \in TaskIds :
          /\ analyses[t].st = "request" =>
                \/ analyses'[t] = analyses[t]
                \/ \E x \in UsualExchanges :
                       analyses'[t] = [analyses[t] EXCEPT
                                          !.st = "publishing", !.exchange = x,
                                          !.outcome = Outcome(x, analyses[t].model)]
          /\ analyses[t].st = "publishing" =>
                \/ analyses'[t] = analyses[t]
                \/ /\ analyses'[t] = [analyses[t] EXCEPT !.st = "published"]
                   /\ ai_response' = ResultText(analyses[t].outcome, analyses[t].model)
          /\ analyses[t].st = "published" =>
                analyses'[t] \in {analyses[t], IdleTask}

C4_ChatNotGated ==
    /\ [][C4_ChatSteps]_vars
    /\ (Cardinality(InFlight) >= 2) ~> (InFlight = {})

\* A chat line started a second analysis while the first was in flight.
C4_TwoInFlight ==
    /\ last[1] = "send"
    /\ processing
    /\ Cardinality({t \in TaskIds : analyses[t].st = "request"}) = 2

\* The frame in which an animation completes: progress >= 1.
Completing == BeginStep /\ Animating /\ animation_start_time[1] >= animation_duration

\* C5: whatever toggle and close clicks there were, in the frame where an
\* animation completes current_x is set to the target and the animation is
\* cleared; the target is the one the last click set, the position for the
\* state it asked for (the width the click read, less SIDEBAR_WIDTH when
\* open), and nothing but a click changes it while the animation runs.
C5_EndsAtTargetOfClick ==
    [][/\ Completing =>
             /\ current_x' = target_x
             /\ target_x' = target_x
             /\ animation_start_x' = target_x
             /\ animation_start_time' = None
       /\ ToggleStep =>
             /\ open' = ~open
             /\ target_x' = IF open' THEN width - SIDEBAR_WIDTH ELSE width
       /\ CloseStep =>
             /\ ~open'
             /\ target_x' = width
       /\ (Animating /\ ~ToggleStep /\ ~CloseStep) =>
             /\ target_x' = target_x
             /\ open' = open]_vars

\* An animation that opened the panel has completed in this frame.
C5_OpenedAndDone ==
    /\ last = <<"begin", "done">>
    /\ rpc = "sidebar"
    /\ open
    /\ ~Animating
    /\ current_x = width - SIDEBAR_WIDTH
    /\ target_x = current_x

\* C6: a frame that finds no animation running and the width of the window
\* changed sets current_x, target_x and animation_start_x to the position for
\* the open flag and the new width, and starts no animation.
C6_IdleResize ==
    [][(BeginStep /\ ~Animating /\ width' # width) =>
          LET position == IF open THEN width' - SIDEBAR_WIDTH ELSE width'
          IN  /\ current_x' = position
              /\ target_x' = position
              /\ animation_start_x' = position
              /\ animation_start_time' = None
              /\ open' = open]_vars

\* The open panel, idle, has followed the window to its wider size.
C6_OpenPanelMoved ==
    /\ last = <<"begin", "resized">>
    /\ open
    /\ ~Animating
    /\ width = InitialWidth + 500
    /\ current_x = SIDEBAR_WIDTH + HANDLE_WIDTH + 500 - SIDEBAR_WIDTH

\* C7: the panel is Idle (animation_start_time None) or Animating; a toggle
\* or close click makes it Animating; only a click takes it from Idle to
\* Animating and only a frame with progress >= 1 takes it back; with frames
\* rendered and time advancing, an Animating panel is Idle again unless a
\* click comes first.
C7_Transitions ==
    /\ (ToggleStep \/ CloseStep) => animation_start_time' = Some(0)
    /\ (~Animating /\ Animating') => (ToggleStep \/ CloseStep)
    /\ (Animating /\ ~Animating') => Completing
    /\ animation_start_time' = None \/ \E e \in 0..animation_duration :
                                          animation_start_time' = Some(e)

C7_AnimatorStates ==
    /\ [][C7_Transitions]_vars
    /\ (Animating /\ last \notin {<<"toggle", "">>, <<"close", "">>}) ~>
          (~Animating \/ last \in {<<"toggle", "">>, <<"close", "">>})

\* The close button has started an animation that a frame has since stepped.
C7_ClosingUnderWay ==
    /\ Animating
    /\ ~open
    /\ last = <<"begin", "step">>
    /\ current_x > width - SIDEBAR_WIDTH
    /\ current_x < width

\* C8 as stated: a frame that ends with animation_start_time set has called
\* request_repaint.
C8_AnimatingFrameRepaints ==
    (rpc = "begin" /\ was_layout_initialized /\ Animating) => repaint

\* C9: a window capture that fails (no such window, or the capture of it)
\* is followed by a capture of the full screen; when that one succeeds the
\* cell ends with its bytes, which are not empty; the cell's image is as it
\* was when the full screen fails too.
C9_FallbackFillsCell ==
    [][\A c \in CaptureIds :
          (CaptureDoneStep(c) /\ captures[c].kind = "window") =>
             /\ last'[2] = "fallback" =>
                   /\ manager_image' # None
                   /\ image_data' = Png(manager_image'[1])
                   /\ image_data' # NoBytes
                   /\ current_image' = None
             /\ last'[2] = "both_failed" =>
                   /\ UNCHANGED <<image_data, current_image>>
                   /\ manager_image' = manager_image
             /\ ~WindowFound(captures[c].title) =>
                   last'[2] \in {"fallback", "both_failed"}]_vars

\* The capture of a window that is not on the screen has filled the empty
\* cell with the full screen.
C9_GhostFellBack ==
    /\ last = <<"capture_done", "fallback">>
    /\ selected_window = Some("ghost")
    /\ image_data # NoBytes
    /\ current_image = None
    /\ \A c \in CaptureIds : captures[c].st = "idle"

\* C10: a capture thread writes the cell once (image bytes and texture
\* handle, together, and nothing else) on every path where a capture
\* succeeded, the first or the fallback, and leaves the whole cell alone
\* when none did.
C10_OneWritePerCapture ==
    [][\A c \in CaptureIds :
          CaptureDoneStep(c) =>
             /\ last'[2] \in {"captured", "fallback"} =>
                   /\ manager_image' # None
                   /\ image_data' = Png(manager_image'[1])
                   /\ current_image' = None
                   /\ UNCHANGED <<processing, ai_response>>
             /\ last'[2] \in {"failed", "both_failed"} => UNCHANGED cellVars
             /\ last'[2] \in {"captured", "fallback", "failed", "both_failed"}]_vars

\* A /capture has put the second image of the screen into the cell.
C10_ScreenReplaced ==
    /\ last = <<"capture_done", "captured">>
    /\ image_data = Png("imgB")
    /\ current_image = None
    /\ manager_image = Some("imgB")
    /\ \E i \in 1..Len(chat_history) : chat_history[i] = UserEntry(<<"/capture">>)

PushStep(text) ==
    /\ rpc = "scroll"
    /\ rpc' = "input"
    /\ chat_history' = Append(chat_history, AssistantEntry(text))

\* C12 as stated: a response an analysis has published stays in the result
\* field until the frame appends it to the transcript, and a frame that draws
\* the chat with processing false appends it.
C12_ResponseReachesTranscript ==
    [][/\ (ai_response \in Responses /\ ai_response' # ai_response) =>
             PushStep(ai_response)
       /\ (ai_response \in Responses /\ rpc = "chat" /\ ~processing) =>
             rpc' # "input"
       /\ (/\ ai_response_cloned \in Responses
           /\ rpc = "scroll"
           /\ rpc' = "input"
           /\ ~processing_cloned) => PushStep(ai_response_cloned)]_vars

\* An analysis thread writes its text to the cell.
PublishStep(t) == analyses[t].st = "publishing" /\ analyses'[t].st = "published"

\* C13: when the exchange ends with a success and the body {"response": X},
\* the thread writes X to ai_response, and nothing else.
C13_ResponseAsReceived ==
    [][\A t \in TaskIds :
          (/\ PublishStep(t)
           /\ analyses[t].exchange.new = "ok"
           /\ analyses[t].exchange.tags = "listed"
           /\ analyses[t].exchange.generate = "ok") =>
             ai_response' = analyses[t].exchange.body.response]_vars

\* The answer of the model a /model line named is in the cell, as the
\* endpoint sent it.
C13_AnswerInCell ==
    /\ last = <<"analysis_publish", "response">>
    /\ ai_response = <<"A blue desktop.">>
    /\ \E t \in TaskIds :
          /\ analyses[t].st = "published"
          /\ analyses[t].model = "llava:13b"
          /\ analyses[t].exchange = Answered(ai_response)

\* The hints the analysis threads have.
HintPull(m) == <<"\n\nTo fix: ollama pull ", m>>
HintServe == <<"\n\nEnsure Ollama is running: ollama serve">>
HintInit == <<"\n\n", "Is Ollama running? Is model pulled?">>
\* text ends with hint.
EndsWith(text, hint) ==
    /\ Len(text) >= Len(hint)
    /\ SubSeq(text, Len(text) - Len(hint) + 1, Len(text)) = hint

\* C14 as stated: when the endpoint refuses the connection the text the
\* thread writes carries a hint to start the service, and the thread ends
\* with processing false.
C14_UnreachableGetsHint ==
    [][\A t \in TaskIds :
          /\ (PublishStep(t) /\ analyses[t].exchange.tags = "refused") =>
                \/ EndsWith(ai_response', HintServe)
                \/ EndsWith(ai_response', HintInit)
          /\ (analyses[t].st = "published" /\ analyses'[t].st = "idle") =>
                ~processing']_vars

\* The failure of the analysis t is a missing model: the list of the endpoint
\* has no such model, or the description says "not found".
MissingFailure(t) ==
    \/ analyses[t].exchange.tags = "absent"
    \/ Contains(analyses[t].outcome.text, "not found")
\* The failure is a refused connection or a service that is not available.
RefusedFailure(t) ==
    \/ analyses[t].exchange.tags = "refused"
    \/ analyses[t].exchange.tags = "listed" /\ analyses[t].exchange.generate = "refused"
    \/ Contains(analyses[t].outcome.text, "not available")
    \/ Contains(analyses[t].outcome.text, "connection refused")

\* C15 as stated: the text written for a failure of process_image is the
\* description and at most one hint: the pull hint for a missing model, also
\* when the failure is a refused connection as well, else the serve hint for
\* a refused connection or a service that is not available.
C15_HintByCause ==
    [][\A t \in TaskIds :
          (PublishStep(t) /\ analyses[t].outcome.kind = "error") =>
             LET described == <<"AI processing failed: ">> \o analyses[t].outcome.text
             IN  /\ MissingFailure(t) =>
                       ai_response' = described \o HintPull(analyses[t].model)
                 /\ (~MissingFailure(t) /\ RefusedFailure(t)) =>
                       ai_response' = described \o HintServe
                 /\ ai_response' \in {described, described \o HintServe,
                                      described \o HintPull(analyses[t].model)}]_vars

\* C16: an analysis thread starts with a copy of the bytes the cell has at
\* that moment and keeps it to its end, whatever a capture or a /clear makes
\* of the cell meanwhile; the steps of the thread leave the image bytes and
\* the texture handle of the cell as they are.
C16_WorksOnItsCopy ==
    [][\A t \in TaskIds :
          /\ (analyses[t].st = "idle" /\ analyses'[t].st # "idle") =>
                /\ analyses'[t].image = image_data
                /\ analyses'[t].image # NoBytes
          /\ (analyses[t].st # "idle" /\ analyses'[t].st # "idle") =>
                analyses'[t].image = analyses[t].image
          /\ (analyses[t].st # "idle" /\ analyses'[t].st # analyses[t].st) =>
                UNCHANGED <<image_data, current_image>>]_vars

\* The exchange of an analysis of the first image has ended after a capture
\* put the second image into the cell.
C16_CellMovedOn ==
    \E t \in TaskIds :
        /\ analyses[t].st = "publishing"
        /\ analyses[t].image = Png("imgA")
        /\ image_data = Png("imgB")

\* A thread is in a blocking operation: the 300 ms sleep and the wait for the
\* manager ("spawned"), the capture ("capturing"), the HTTP exchange
\* ("request").
CaptureBlocking(c) == captures[c].st \in {"spawned", "capturing"}
AnalysisBlocking(t) == analyses[t].st = "request"

\* C17: the lock of the cell is held by no thread that sleeps, captures or
\* waits for the endpoint: a thread has it only between the end of such an
\* operation and its write to the cell, and the step it takes with the lock
\* writes and unlocks.
C17_NoLockAcrossBlocking ==
    /\ [](/\ state_lock \in {None} \cup {CaptureThread(c) : c \in CaptureIds}
                               \cup {AnalysisThread(t) : t \in TaskIds}
          /\ \A c \in CaptureIds : state_lock = CaptureThread(c) => ~CaptureBlocking(c)
          /\ \A t \in TaskIds : state_lock = AnalysisThread(t) => ~AnalysisBlocking(t))
    /\ [][/\ \A c \in CaptureIds :
                (state_lock = CaptureThread(c) /\ captures'[c] # captures[c]) =>
                   /\ state_lock' = None
                   /\ captures[c].st = "publishing"
          /\ \A t \in TaskIds :
                (state_lock = AnalysisThread(t) /\ analyses'[t] # analyses[t]) =>
                   /\ state_lock' = None
                   /\ analyses[t].st = "publishing"
          /\ (state_lock # None /\ state_lock' # state_lock) => state_lock' = None]_vars

\* A capture thread is in its critical section of the cell while an analysis
\* thread waits for the endpoint.
C17_LockedWhileRequesting ==
    \E c \in CaptureIds, t \in TaskIds :
        /\ state_lock = CaptureThread(c)
        /\ analyses[t].st = "request"
        /\ rpc = "chat"

\* The texture stage of the frame is about to lock the manager: the cell has
\* bytes and no texture.
FrameWantsManager ==
    /\ rpc = "clone"
    /\ current_image = None
    /\ image_data # NoBytes

\* C18 as stated: the frame waits for no lock whose holder is in a capture or
\* an HTTP exchange: not for the lock of the cell, and not for the lock of the
\* manager when it comes to load the texture.
C18_FrameWaitsForNoCapture ==
    /\ \A c \in CaptureIds : state_lock = CaptureThread(c) => ~CaptureBlocking(c)
    /\ \A t \in TaskIds : state_lock = AnalysisThread(t) => ~AnalysisBlocking(t)
    /\ \A c \in CaptureIds :
          (FrameWantsManager /\ manager_lock = c) => captures[c].st # "capturing"

\* A line has been sent in the chat input and handled.
SendStep == rpc = "input" /\ rpc' = "handle" /\ last'[1] = "send"

\* The texts handle_user_input has for the commands.
CommandTexts ==
    {MsgWindowUsage, MsgCaptureFirstCommand, MsgProcessingImage, MsgCleared, MsgHelp}
    \cup {MsgModelSet(m) : m \in ModelNames} \cup {MsgModelCurrent(m) : m \in ModelNames}
    \cup {MsgUnknown(c) : c \in {"/bogus"}}

\* C19 as stated: every line that begins with '/' ends with a confirmation
\* or an error text of its command written into ai_response.
C19_EveryCommandAnswers ==
    [][(SendStep /\ StartsWithSlash(last'[2])) => ai_response' \in CommandTexts]_vars

\* C19, amended: a line that begins with '/' is dispatched on the lower-cased
\* first word.  /capture and /window with a name start a capture thread and
\* leave ai_response as it is; every other command, and every unknown one,
\* ends with its text in ai_response.
C19_CommandsDispatched ==
    [][(SendStep /\ StartsWithSlash(last'[2])) =>
          LET command == last'[2]
              started == Cardinality(FreeCapture') = Cardinality(FreeCapture) - 1
          IN  /\ command = "/capture" =>
                    /\ started
                    /\ UNCHANGED <<cellVars, analyses>>
              /\ command = "/window" =>
                    \/ /\ started
                       /\ selected_window' # None
                       /\ UNCHANGED <<cellVars, analyses>>
                    \/ /\ ai_response' = MsgWindowUsage
                       /\ UNCHANGED threadVars
              /\ command = "/model" =>
                    /\ ai_response' \in {MsgModelSet(model_name'), MsgModelCurrent(model_name)}
                    /\ UNCHANGED threadVars
              /\ command = "/analyze" =>
                    /\ ai_response' = IF image_data = NoBytes THEN MsgCaptureFirstCommand
                                      ELSE MsgProcessingImage
                    /\ UNCHANGED captures
              /\ command = "/clear" =>
                    /\ ai_response' = MsgCleared
                    /\ chat_history' = << >>
              /\ command = "/help" => ai_response' = MsgHelp
              /\ command \notin {"/capture", "/window", "/model", "/analyze", "/clear", "/help"} =>
                    ai_response' = MsgUnknown(command)
              /\ command # "/clear" =>
                    /\ chat_history' # << >>
                    /\ LET line == chat_history'[Len(chat_history')].text
                       IN  /\ line[1] \in {"/help", "/Help"} => command = "/help"
                           /\ command = "/window" => (started <=> Len(line) > 1)]_vars

\* /Help, typed with a capital, has put the help text into the cell.
C19_HelpInAnyCase ==
    /\ last = <<"send", "/help">>
    /\ chat_history # << >>
    /\ chat_history[Len(chat_history)] = UserEntry(<<"/Help">>)
    /\ ai_response = MsgHelp

\* C20: a line that does not begin with '/' is, whole, the prompt of an
\* analysis of the image in the cell: with bytes in the cell one thread
\* starts, with a copy of the bytes, the line as its prompt and the model
\* chosen, and no other thread changes; with no bytes nothing starts and the
\* step only writes the message to capture an image first.
C20_LineIsThePrompt ==
    [][(SendStep /\ ~StartsWithSlash(last'[2])) =>
          LET line == chat_history'[Len(chat_history')].text
          IN  /\ chat_history' = Append(chat_history, UserEntry(line))
              /\ line[1] = last'[2]
              /\ image_data # NoBytes =>
                    /\ \E t \in TaskIds :
                          /\ analyses[t].st = "idle"
                          /\ analyses' = [analyses EXCEPT ![t] =
                                [IdleTask EXCEPT !.st = "request", !.image = image_data,
                                                 !.prompt = line, !.model = model_name]]
                    /\ processing'
                    /\ ai_response' = MsgProcessingPrompt
                    /\ UNCHANGED <<image_data, current_image, captures>>
              /\ image_data = NoBytes =>
                    /\ ai_response' = MsgCaptureFirstPrompt
                    /\ UNCHANGED <<processing, image_data, current_image, threadVars>>]_vars

\* The line "what is this?" is the prompt of the one analysis in flight.
C20_PromptInFlight ==
    /\ last = <<"send", "what">>
    /\ \E t \in TaskIds :
          /\ InFlight = {t}
          /\ analyses[t].st = "request"
          /\ analyses[t].prompt = <<"what", "is", "this?">>
          /\ analyses[t].image = Png("imgA")

\* old is a prefix of new, one entry shorter.
AppendedOne(old, new) ==
    /\ Len(new) = Len(old) + 1
    /\ SubSeq(new, 1, Len(old)) = old

\* C21: the chat history changes only by one entry appended at its end (the
\* user's line when it is sent, the result text when the frame records it)
\* or by being emptied by /clear; no entry in it is changed, moved or taken
\* out on its own.
C21_AppendOrClear ==
    [][chat_history' # chat_history =>
          \/ /\ AppendedOne(chat_history, chat_history')
             /\ \/ /\ SendStep
                   /\ chat_history'[Len(chat_history')].is_user
                   /\ chat_history'[Len(chat_history')].text[1] \in {last'[2], "/Help"}
                \/ PushStep(ai_response_cloned)
          \/ /\ chat_history' = << >>
             /\ SendStep
             /\ last'[2] = "/clear"]_vars

\* The frame has recorded the text of a /clear that emptied a history of
\* several entries: it is the one entry there is.
C21_ClearedThenRecorded ==
    /\ last = <<"chat_push", "">>
    /\ chat_history = <<AssistantEntry(MsgCleared)>>
    /\ inputs = 3

\* The history has the user's line, at a place before i.
RequestedBefore(line, i) ==
    \E j \in 1..(i - 1) : chat_history[j] = UserEntry(line)

\* C22 as stated: /clear empties the history, the image bytes, the texture
\* handle and the result text there was, in one step; and from then on the
\* cell has an image or a texture only when a /capture was sent after the
\* clear, and the history an answer only after an /analyze sent after the
\* clear (the history holds every line sent since the clear).
C22_StaysCleared ==
    /\ [][(SendStep /\ last'[2] = "/clear") =>
             /\ chat_history' = << >>
             /\ image_data' = NoBytes
             /\ current_image' = None
             /\ ai_response' = MsgCleared]_vars
    /\ []((image_data # NoBytes \/ current_image # None) =>
             RequestedBefore(<<"/capture">>, Len(chat_history) + 1))
    /\ [](\A i \in 1..Len(chat_history) :
             chat_history[i].text \in Responses =>
                RequestedBefore(<<"/analyze">>, i))

\* C23: a toggle or close click, also one that comes while an animation
\* runs, leaves current_x as it is and starts an animation from it
\* (animation_start_x = current_x, a fresh start time) to the target of the
\* click; a frame that steps the animation before time has advanced leaves
\* current_x where it was, so the panel does not jump at a click.
C23_RestartsFromCurrent ==
    [][/\ (ToggleStep \/ CloseStep) =>
             /\ current_x' = current_x
             /\ animation_start_x' = current_x
             /\ animation_start_time' = Some(0)
             /\ target_x' = IF open' THEN width - SIDEBAR_WIDTH ELSE width
       /\ (BeginStep /\ animation_start_time = Some(0)) =>
             /\ current_x' = current_x
             /\ animation_start_x' = animation_start_x]_vars

\* The close button was clicked while the panel was on its way open: the
\* animation to the closed position starts from where the panel is.
C23_ClosedMidway ==
    /\ last = <<"close", "">>
    /\ animation_start_time = Some(0)
    /\ animation_start_x = current_x
    /\ current_x > width - SIDEBAR_WIDTH
    /\ current_x < width
    /\ target_x = width

\* C24 as stated: processing is true while an analysis thread is in flight,
\* also with several threads started from the chat.
C24_ProcessingWhileInFlight == InFlight # {} => processing

\* The texts written when an analysis starts.
Placeholders == {MsgProcessingImage, MsgProcessingPrompt}

\* C25 as stated: no entry of the history is a placeholder text, and the
\* frame appends no placeholder, in whatever order the frame and the
\* analysis threads take their steps.
C25_NoPlaceholderRecorded ==
    /\ [](\A i \in 1..Len(chat_history) : chat_history[i].text \notin Placeholders)
    /\ [][\A text \in Placeholders : ~PushStep(text)]_vars

\* C26 as stated: a texture in the cell is the texture of the image whose
\* bytes the cell has, whatever the order of the frame's check, clone and
\* store and the steps of a capture thread.
C26_TextureOfTheBytes ==
    current_image # None =>
        \E img \in {"imgA", "imgB"} :
            /\ current_image = Some(Texture(img))
            /\ image_data = Png(img)

\* The frame is at a place where it asks for the lock of the manager.
FrameAsksManager == rpc \in {"clone", "save", "copy"}

\* C27: the locks are taken in one order.  A capture thread takes the lock
\* of the cell while it holds the manager's, and that is the only nesting:
\* the holder of the cell's lock is a thread about to write and unlock,
\* never one that waits for the manager or for the cell again, and never the
\* frame while it asks for the manager.  So no thread waits for ever: every
\* lock taken is released, the frame gets the manager, and every thread
\* comes to its end.
C27_LockOrder ==
    /\ [](/\ state_lock \in {None} \cup {CaptureThread(c) : c \in CaptureIds}
                               \cup {AnalysisThread(t) : t \in TaskIds}
          /\ manager_lock \in {0} \cup CaptureIds
          /\ \A c \in CaptureIds :
                /\ state_lock = CaptureThread(c) =>
                      /\ manager_lock = c
                      /\ captures[c].st = "publishing"
                /\ manager_lock = c => captures[c].st \in {"capturing", "publishing"}
                /\ captures[c].st = "spawned" => state_lock # CaptureThread(c)
          /\ \A t \in TaskIds :
                state_lock = AnalysisThread(t) => analyses[t].st = "publishing"
          /\ FrameAsksManager => state_lock # RenderThread)
    /\ [][/\ (state_lock # None /\ state_lock' # state_lock) => state_lock' = None
          /\ (manager_lock # 0 /\ manager_lock' # manager_lock) => manager_lock' = 0]_vars
    /\ (state_lock # None \/ manager_lock # 0 \/ InFlight # {} \/ FreeCapture # CaptureIds) ~>
          (state_lock = None /\ manager_lock = 0 /\ InFlight = {} /\ FreeCapture = CaptureIds)
    /\ FrameAsksManager ~> ~FrameAsksManager

\* The frame waits for the manager, which a capture thread holds together
\* with the lock of the cell, while an analysis thread waits for the
\* endpoint.
C27_AllAtTheLocks ==
    /\ FrameAsksManager
    /\ \E c \in CaptureIds :
          /\ manager_lock = c
          /\ state_lock = CaptureThread(c)
    /\ \E t \in TaskIds : analyses[t].st = "request"

\* The texts handle_user_input writes for /help, /model and an unknown
\* command.
ConfirmationTexts ==
    {MsgHelp} \cup {MsgModelSet(m) : m \in ModelNames}
    \cup {MsgModelCurrent(m) : m \in ModelNames} \cup {MsgUnknown("/bogus")}

\* C28 as stated: the text a command has written to ai_response stays there
\* until the frame appends it to the history, also with an analysis in
\* flight: no other step changes the field while it holds the text.
C28_ConfirmationRecorded ==
    [][(ai_response \in ConfirmationTexts /\ ai_response' # ai_response) =>
          PushStep(ai_response)]_vars

\* A step of the capture thread c, of the analysis thread t (not the step of
\* the frame that starts it).
CaptureThreadStep(c) == captures[c].st # "idle" /\ captures'[c] # captures[c]
AnalysisThreadStep(t) == analyses[t].st # "idle" /\ analyses'[t] # analyses[t]

\* C29: the two kinds of thread write different fields of the cell.  No step
\* of a capture thread, whether the capture ends with the window, with the
\* full screen or with nothing, changes processing or ai_response; no step of
\* an analysis thread, whether it ends with an answer or a failure, changes
\* image_data or the texture handle.
C29_DisjointFields ==
    [][/\ \A c \in CaptureIds :
             CaptureThreadStep(c) => UNCHANGED <<processing, ai_response>>
       /\ \A t \in TaskIds :
             AnalysisThreadStep(t) => UNCHANGED <<image_data, current_image>>]_vars

\* An analysis has published a failure over an image with its texture in
\* place, while a capture thread is at work.
C29_FailureBesideCapture ==
    /\ last = <<"analysis_publish", "error">>
    /\ image_data = Png("imgA")
    /\ current_image = Some(Texture("imgA"))
    /\ \E c \in CaptureIds : captures[c].st = "capturing" /\ captures[c].kind = "window"

\* x is between the open and the closed position of the panel.
WithinTravel(x) == width - SIDEBAR_WIDTH <= x /\ x <= width

\* C30: once the layout is initialised, in a window that keeps its width,
\* current_x is in [width - SIDEBAR_WIDTH, width] in every frame, whatever
\* toggle and close clicks there are, also clicks that come while an
\* animation runs: the animation goes from a place in the interval to an end
\* of it and the eased offset is never beyond either.
C30_OffsetWithinTravel ==
    was_layout_initialized =>
        /\ WithinTravel(current_x)
        /\ WithinTravel(animation_start_x)
        /\ target_x \in {width - SIDEBAR_WIDTH, width}

\* A frame steps an animation that a click started midway of another: the
\* panel is between its end positions, away from where the click found it.
C30_SteppedAfterInterrupt ==
    /\ last = <<"begin", "step">>
    /\ width = InitialWidth + 500
    /\ animation_start_x > width - SIDEBAR_WIDTH
    /\ animation_start_x < width
    /\ current_x > width - SIDEBAR_WIDTH
    /\ current_x < width
    /\ current_x # animation_start_x

====
